---- MODULE Spec2Model ----
(***************************************************************************)
(* A model of arlpy/comms.py, the communications toolbox.  Every function  *)
(* of the module is pure, so the state is a caller's workspace: the last   *)
(* call made (op), its arguments (arg), what it returned or raised (ret),  *)
(* and, when the call consumed the result of the call before it, that      *)
(* earlier call (from).  A workspace starts empty, makes one call on fresh *)
(* inputs and may then feed the result to the next function.  Arrays are   *)
(* sequences, so Python index k is index k+1 here.  The code is Python 2   *)
(* (map returns a list, / on integers is floor division).                  *)
(***************************************************************************)
EXTENDS Integers, Sequences, FiniteSets, TLC

VARIABLES op, arg, ret, from

vars == <<op, arg, ret, from>>

(* ---------------------------------------------------------------- bounds *)
MaxM == 9          \* largest alphabet size handed to gray_code
MaxBits == 6       \* longest bit stream handed to bi2sym
MaxSyms == 2       \* longest symbol stream handed to modulate
MaxWideSyms == 1   \* the same, for constellations of more than 16 points
MaxPam == 4        \* largest PAM alphabet size
MaxSig == 3        \* longest complex baseband sequence
MaxSps == 3        \* largest number of samples per symbol
MaxRate == 2       \* longest symbol sequence handed to ser and ber
MaxSpan == 3       \* longest filter span, in symbols

(* ---------------------------------------------------- results and errors *)
Ok(v) == [err |-> "none", ok |-> TRUE, val |-> v]

Raise(e) == [err |-> e, ok |-> FALSE, val |-> <<>>]

NoCall == [op |-> "none", arg |-> <<>>]

SeqsUpTo(S, n) == UNION {[1..k -> S] : k \in 0..n}

(* ------------------------------------------------------ integer helpers *)
RECURSIVE Xor(_, _)
Xor(a, b) ==
  IF a = 0 THEN b
  ELSE IF b = 0 THEN a
  ELSE (((a % 2) + (b % 2)) % 2) + 2 * Xor(a \div 2, b \div 2)

RECURSIVE ILog2(_)
ILog2(m) == IF m <= 1 THEN 0 ELSE 1 + ILog2(m \div 2)

IsPow2(m) == 2 ^ ILog2(m) = m

(* ------------------------------------------------------------ gray_code *)
gray_code_shl(m) == [i \in 1..m |-> Xor(i - 1, (i - 1) * 2)]

gray_code(m) == [i \in 1..m |-> Xor(i - 1, (i - 1) \div 2)]

(* ----------------------------------------------------------- invert_map *)
(* y = empty_like(x) holds whatever the allocator left (g); y[x] = arange  *)
(* raises IndexError on an index outside [-n, n), wraps a negative one,    *)
(* and keeps the last assignment where an index repeats.                   *)
PyIndex(k, n) == IF k < 0 THEN k + n + 1 ELSE k + 1

InRange(k, n) == k >= -n /\ k < n

invert_map(x, g) ==
  LET n == Len(x)
      Hits(j) == {i \in 1..n : PyIndex(x[i], n) = j}
      Last(S) == CHOOSE i \in S : \A k \in S : k <= i
  IN IF \E i \in 1..n : ~InRange(x[i], n)
     THEN Raise("IndexError")
     ELSE Ok([j \in 1..n |-> IF Hits(j) = {} THEN g[j] ELSE Last(Hits(j)) - 1])

(* --------------------------------------------------------------- bi2sym *)
RECURSIVE FoldBits(_, _)
FoldBits(b, acc) ==
  IF b = <<>> THEN acc ELSE FoldBits(Tail(b), 2 * acc + Head(b))

(* the same, with reshape replaced by a slice that drops the trailing bits  *)
bi2sym_truncating(x, m) ==
  LET n == ILog2(m)
  IN IF 2 ^ n # m THEN Raise("ValueError: m must be a power of 2")
     ELSE IF \E i \in 1..Len(x) : x[i] < 0 \/ x[i] > 1
       THEN Raise("ValueError: Invalid data bits")
     ELSE IF n = 0 THEN Raise("ZeroDivisionError")
     ELSE LET nsym == Len(x) \div n
          IN Ok([s \in 1..nsym |->
                  FoldBits(SubSeq(x, (s - 1) * n + 1, s * n), 0)])

bi2sym(x, m) ==
  LET n == ILog2(m)
  IN IF 2 ^ n # m THEN Raise("ValueError: m must be a power of 2")
     ELSE IF \E i \in 1..Len(x) : x[i] < 0 \/ x[i] > 1
       THEN Raise("ValueError: Invalid data bits")
     ELSE IF n = 0 THEN Raise("ZeroDivisionError")
     ELSE LET nsym == Len(x) \div n
          IN IF nsym * n # Len(x) THEN Raise("ValueError: reshape")
             ELSE Ok([s \in 1..nsym |->
                       FoldBits(SubSeq(x, (s - 1) * n + 1, s * n), 0)])

(* --------------------------------------------------------------- sym2bi *)
sym2bi_little_endian(x, m) ==
  LET n == ILog2(m)
  IN IF 2 ^ n # m THEN Raise("ValueError: m must be a power of 2")
     ELSE IF \E i \in 1..Len(x) : x[i] < 0 \/ x[i] >= m
       THEN Raise("ValueError: Invalid data for specified m")
     ELSE Ok([k \in 1..(Len(x) * n) |->
               LET s == (k - 1) \div n + 1
                   i == (k - 1) % n
               IN (x[s] \div (2 ^ i)) % 2])

sym2bi(x, m) ==
  LET n == ILog2(m)
  IN IF 2 ^ n # m THEN Raise("ValueError: m must be a power of 2")
     ELSE IF \E i \in 1..Len(x) : x[i] < 0 \/ x[i] >= m
       THEN Raise("ValueError: Invalid data for specified m")
     ELSE Ok([k \in 1..(Len(x) * n) |->
               LET s == (k - 1) \div n + 1
                   c == (k - 1) % n
                   i == n - c - 1
               IN (x[s] \div (2 ^ i)) % 2])

(* -------------------------------------------------------- constellations *)
(* A constellation is [pts, div, d2n, d2d]: point k is the Gaussian integer *)
(* pts[k] divided by div * sqrt(d2n / d2d).  The division by the root mean  *)
(* square that the code performs is kept as the exact ratio d2n / d2d;      *)
(* d2n = 0 is the division 0/0, and every point is then NaN.                *)
Const(pts, div, d2n, d2d) == [pts |-> pts, div |-> div, d2n |-> d2n, d2d |-> d2d]

IsNaN(c) == c.d2n = 0

RECURSIVE SumSq(_)
SumSq(pts) ==
  IF pts = <<>> THEN 0
  ELSE Head(pts)[1] * Head(pts)[1] + Head(pts)[2] * Head(pts)[2] + SumSq(Tail(pts))

(* x[ndx]: numpy integer-array indexing                                     *)
Take(x, ndx) == [k \in 1..Len(ndx) |-> x[PyIndex(ndx[k], Len(x))]]

Regray(c, inv) ==
  IF inv.ok THEN Ok(Const(Take(c.pts, inv.val), c.div, c.d2n, c.d2d)) ELSE inv

(* ------------------------------------------------------------------ ook *)
(* array([0, sqrt(2)]): the points 0 and 1 divided by sqrt(1/2)            *)
ook == Ok(Const(<<<<0, 0>>, <<1, 0>>>>, 1, 1, 2))

(* ------------------------------------------------------------------ pam *)
(* arange(m) less its mean (m-1)/2 is held in halves: div = 2.             *)
pam(m, gray, centered, g) ==
  IF gray /\ ~IsPow2(m)
  THEN Raise("ValueError: m must be a power of 2 if Gray coding is desired")
  ELSE LET pts == [i \in 1..m |->
                    <<IF centered THEN 2 * (i - 1) - (m - 1) ELSE i - 1, 0>>]
           div == IF centered THEN 2 ELSE 1
           c == Const(pts, div, SumSq(pts), div * div * m)
       IN IF gray THEN Regray(c, invert_map(gray_code(m), g)) ELSE Ok(c)

(* ------------------------------------------------------------------ psk *)
(* round(exp(1j*angle), decimals=8) in units of 1e-8, for angles that are  *)
(* multiples of 2*pi/24: the first quadrant of the cosine, then symmetry.  *)
CosQuadrant == <<100000000, 96592583, 86602540, 70710678, 50000000, 25881905, 0>>

Cos8(u) ==
  LET v == u % 24
  IN IF v <= 6 THEN CosQuadrant[v + 1]
     ELSE IF v <= 12 THEN -CosQuadrant[12 - v + 1]
     ELSE IF v <= 18 THEN -CosQuadrant[v - 12 + 1]
     ELSE CosQuadrant[24 - v + 1]

Sin8(u) == Cos8(u + 18)

(* phase0 is <<>> for None, else <<u>>, the phase in units of 2*pi/24;     *)
(* m divides 24.                                                           *)
psk(m, phase0, gray, g) ==
  LET p0 == IF phase0 = <<>> THEN (IF m = 4 THEN 3 ELSE 0) ELSE phase0[1]
      pts == [k \in 1..m |->
               <<Cos8((24 \div m) * (k - 1) + p0), Sin8((24 \div m) * (k - 1) + p0)>>]
      c == Const(pts, 10 ^ 8, 1, 1)
  IN IF gray THEN Regray(c, invert_map(gray_code(m), g)) ELSE Ok(c)

(* ------------------------------------------------------------------ qam *)
RECURSIVE ISqrtFrom(_, _)
ISqrtFrom(m, n) == IF (n + 1) * (n + 1) > m THEN n ELSE ISqrtFrom(m, n + 1)

ISqrt(m) == ISqrtFrom(m, 0)

(* the same, with the loop that reverses the odd rows left out             *)
SnakeGrid_noflip(m, n) == gray_code(m)

(* rows of the n-by-n index grid, every odd row reversed                   *)
SnakeGrid(m, n) ==
  LET gc == gray_code(m)
  IN [k \in 1..m |->
       LET r == (k - 1) \div n
           i == (k - 1) % n
       IN IF r % 2 = 1 THEN gc[r * n + (n - 1 - i) + 1] ELSE gc[k]]

(* x[r,i] = r + 1j*i less its mean, in halves; std(x)^2 = mean(|x|^2) of   *)
(* the centred grid.                                                       *)
qam(m, gray, g) ==
  LET n == ISqrt(m)
  IN IF n * n # m THEN Raise("ValueError: m must be an integer squared")
     ELSE LET pts == [k \in 1..m |->
                       <<2 * ((k - 1) \div n) - (n - 1), 2 * ((k - 1) % n) - (n - 1)>>]
              c == Const(pts, 2, SumSq(pts), 4 * m)
          IN IF gray THEN Regray(c, invert_map(SnakeGrid(m, n), g)) ELSE Ok(c)

(* ------------------------------------------------------------- modulate *)
(* ravel(const[data]): a signal is the sequence of numerators, in the      *)
(* units of the constellation it was drawn from.                           *)
modulate(data, const) ==
  IF \E i \in 1..Len(data) : ~InRange(data[i], Len(const.pts))
  THEN Raise("IndexError")
  ELSE Ok(Take(const.pts, data))

(* ----------------------------------------------------------- demodulate *)
(* Squares of numbers up to 4e8, as <<high, low>> digits in base 1e8.      *)
WSq(a) ==
  LET v == IF a < 0 THEN -a ELSE a
      ah == v \div (10 ^ 4)
      al == v % (10 ^ 4)
      mid == 2 * ah * al
      low == (mid % (10 ^ 4)) * (10 ^ 4) + al * al
  IN <<ah * ah + (mid \div (10 ^ 4)) + (low \div (10 ^ 8)), low % (10 ^ 8)>>

WAdd(p, q) ==
  <<p[1] + q[1] + ((p[2] + q[2]) \div (10 ^ 8)), (p[2] + q[2]) % (10 ^ 8)>>

WLess(p, q) == p[1] < q[1] \/ (p[1] = q[1] /\ p[2] < q[2])

(* all(abs(const.imag) < 1e-6) and all(const.real >= 0); NaN compares False *)
Incoherent(const) ==
  /\ ~IsNaN(const)
  /\ \A k \in 1..Len(const.pts) : const.pts[k][2] = 0 /\ const.pts[k][1] >= 0

(* |a|^2 of a sample or of a difference of two                             *)
Mag2(a) == WAdd(WSq(a[1]), WSq(a[2]))

(* The square of the Euclidean metric abs(a - b)                           *)
Metric2(a, b) == Mag2(<<a[1] - b[1], a[2] - b[2]>>)

(* The metrics are doubles computed from rounded coordinates: two squares  *)
(* nearer to each other than 1e-14 of their size can compare either way.   *)
(* (Below 1e14 the slack is 0 and the comparison of the squares is exact.) *)
DoubleSlack(d) == <<0, d[1] \div (10 ^ 6)>>

SurelyLess(p, q) == WLess(WAdd(p, DoubleSlack(q)), q)

(* The metric of point j is below the metric of point k, whatever the      *)
(* rounding.  For the incoherent metric abs(abs(a) - b), with b >= 0:      *)
(* | |a| - bj | < | |a| - bk |  iff  (bj - bk) * (bj + bk - 2|a|) < 0.     *)
Nearer(const, a, j, k) ==
  LET bj == const.pts[j]
      bk == const.pts[k]
  IN IF Incoherent(const)
     THEN LET sum2 == WSq(bj[1] + bk[1])
              twice2 == Mag2(<<2 * a[1], 2 * a[2]>>)
          IN \/ bj[1] > bk[1] /\ SurelyLess(sum2, twice2)
             \/ bj[1] < bk[1] /\ SurelyLess(twice2, sum2)
     ELSE SurelyLess(Metric2(a, bj), Metric2(a, bk))

(* argmin over the points: the index of the least metric.  Where several   *)
(* points have the least metric in exact arithmetic, the doubles the code  *)
(* compares decide, and the model leaves the choice among them open.       *)
(* Index 0 when all metrics are NaN.                                       *)
ArgMin(const, a) ==
  IF IsNaN(const) THEN {0}
  ELSE LET n == Len(const.pts)
       IN {k - 1 : k \in {i \in 1..n : \A j \in 1..n : ~Nearer(const, a, j, i)}}

ArgMax(const, a) ==
  IF IsNaN(const) THEN {0}
  ELSE LET n == Len(const.pts)
       IN {k - 1 : k \in {i \in 1..n : \A j \in 1..n : ~Nearer(const, a, i, j)}}

(* one decision per sample (axis=1)                                        *)
RECURSIVE Decisions(_)
Decisions(c) ==
  IF c = <<>> THEN {<<>>}
  ELSE {<<k>> \o r : k \in Head(c), r \in Decisions(Tail(c))}

(* the results demodulate can return                                       *)
demodulate_argmax(x, const) ==
  {Ok(y) : y \in Decisions([i \in 1..Len(x) |-> ArgMax(const, x[i])])}

demodulate(x, const) ==
  {Ok(y) : y \in Decisions([i \in 1..Len(x) |-> ArgMin(const, x[i])])}

(* ------------------------------------------------------ complex numbers *)
(* A complex sample is <<re, im>>; the model computes on Gaussian integers, *)
(* where the products and conjugates the code takes are exact.              *)
CAdd(a, b) == <<a[1] + b[1], a[2] + b[2]>>

CMul(a, b) == <<a[1] * b[1] - a[2] * b[2], a[1] * b[2] + a[2] * b[1]>>

CConj(a) == <<a[1], -a[2]>>

CScale(k, a) == <<k * a[1], k * a[2]>>

CZero == <<0, 0>>

COne == <<1, 0>>

(* ---------------------------------------------------------- diff_encode *)
(* y = insert(x, 0, 1); for j in range(2, len(y)): y[j] *= y[j-1]          *)
RECURSIVE EncodeAt(_, _)
EncodeAt(x, j) ==
  IF j = 1 THEN COne
  ELSE IF j = 2 THEN x[1]
  ELSE CMul(x[j - 1], EncodeAt(x, j - 1))

diff_encode(x) == Ok([j \in 1..(Len(x) + 1) |-> EncodeAt(x, j)])

(* ---------------------------------------------------------- diff_decode *)
(* y = array(x); y[1:] *= x[:-1].conj(); return y[1:]                      *)
diff_decode_noconj(x) ==
  Ok([j \in 1..(IF Len(x) = 0 THEN 0 ELSE Len(x) - 1) |->
       CMul(x[j + 1], x[j])])

diff_decode(x) ==
  Ok([j \in 1..(IF Len(x) = 0 THEN 0 ELSE Len(x) - 1) |->
       CMul(x[j + 1], CConj(x[j]))])

(* -------------------------------------------------------------- upfirdn *)
(* scipy.signal.upfirdn(h, x, up, down): insert up-1 zeros between the     *)
(* samples of x, convolve with the taps h (full convolution), keep every   *)
(* down-th sample from the first.  Sample k (from 0) of each stage:        *)
UpSampled(x, up, k) ==
  IF k >= 0 /\ k <= (Len(x) - 1) * up /\ k % up = 0
  THEN x[(k \div up) + 1] ELSE CZero

RECURSIVE FirAt(_, _, _, _, _)
FirAt(h, x, up, k, j) ==
  IF j > Len(h) THEN CZero
  ELSE CAdd(CScale(h[j], UpSampled(x, up, k - (j - 1))),
            FirAt(h, x, up, k, j + 1))

upfirdn(h, x, up, down) ==
  LET hpad == (Len(h) + up - 1) \div up
      full == (Len(x) + hpad - 1) * up
      nout == (full + down - 1) \div down
  IN [i \in 1..nout |-> FirAt(h, x, up, (i - 1) * down, 1)]

(* g = ones(sps)/sqrt(sps), the implied rectangular pulse.  A signal is    *)
(* [num, rs]: sample k is num[k] * sps^(-rs/2), so each pass through g     *)
(* adds one to rs and the taps of the numerator are ones.                  *)
RectTaps(sps) == [j \in 1..sps |-> 1]

(* ------------------------------------------------------------ upconvert *)
(* fc = 0, g = None: the upsampled, pulse-shaped complex baseband.         *)
upconvert(x, sps) ==
  Ok([num |-> upfirdn(RectTaps(sps), x.num, sps, 1), rs |-> x.rs + 1])

(* ---------------------------------------------------------- downconvert *)
(* fc = 0, g = None: matched filter, then every sps-th sample.             *)
downconvert_peak(x, sps) ==
  LET y == upfirdn(RectTaps(sps), x.num, 1, 1)
  IN Ok([num |-> [i \in 1..(Len(x.num) \div sps) |-> y[i * sps]],
         rs |-> x.rs + 1])

downconvert(x, sps) ==
  Ok([num |-> upfirdn(RectTaps(sps), x.num, 1, sps), rs |-> x.rs + 1])

(* ------------------------------------------------------------ _popcount *)
MAX_M == 64

RECURSIVE popcount(_)
popcount(e) == IF e = 0 THEN 0 ELSE (e % 2) + popcount(e \div 2)

(* x ^ y under numpy broadcasting: equal lengths pair up, a length-1       *)
(* operand is repeated, anything else is a ValueError.  Each pair is       *)
(* <<x[i], y[i]>>.                                                         *)
CanBroadcast(x, y) == Len(x) = Len(y) \/ Len(x) = 1 \/ Len(y) = 1

Broadcast(x, y) ==
  LET n == IF Len(x) = 1 THEN Len(y) ELSE IF Len(y) = 1 THEN Len(x) ELSE Len(x)
  IN [i \in 1..n |-> <<IF Len(x) = 1 THEN x[1] ELSE x[i],
                        IF Len(y) = 1 THEN y[1] ELSE y[i]>>]

RECURSIVE CountNonzero(_)
CountNonzero(p) ==
  IF p = <<>> THEN 0
  ELSE (IF Head(p)[1] # Head(p)[2] THEN 1 ELSE 0) + CountNonzero(Tail(p))

RECURSIVE SumPopcount(_)
SumPopcount(p) ==
  IF p = <<>> THEN 0
  ELSE popcount(Xor(Head(p)[1], Head(p)[2])) + SumPopcount(Tail(p))

(* A rate [num, den, base] is the float num / (den * log2(base)); it is    *)
(* NaN when the divisor is the numpy float 0.0 (then num is 0 too).        *)
Rate(num, den, base) == [num |-> num, den |-> den, base |-> base]

(* ------------------------------------------------------------------ ser *)
(* n = product(shape(x)) is an integer, so float(e)/n is the division of   *)
(* a Python float by an int and raises when x is empty.                    *)
ser(x, y) ==
  IF ~CanBroadcast(x, y) THEN Raise("ValueError: operands could not be broadcast")
  ELSE IF Len(x) = 0 THEN Raise("ZeroDivisionError")
  ELSE Ok(Rate(CountNonzero(Broadcast(x, y)), Len(x), 2))

(* ------------------------------------------------------------------ ber *)
ber_count_nonzero(x, y, m) ==
  IF \/ \E i \in 1..Len(x) : x[i] >= m \/ x[i] < 0
     \/ \E i \in 1..Len(y) : y[i] >= m \/ y[i] < 0
  THEN Raise("ValueError: Invalid data for specified m")
  ELSE IF m = 2 THEN ser(x, y)
  ELSE IF m > MAX_M THEN Raise("ValueError: m > 64 not supported")
  ELSE IF ~CanBroadcast(x, y) THEN Raise("ValueError: operands could not be broadcast")
  ELSE Ok(Rate(CountNonzero(Broadcast(x, y)), Len(x), m))

ber(x, y, m) ==
  IF \/ \E i \in 1..Len(x) : x[i] >= m \/ x[i] < 0
     \/ \E i \in 1..Len(y) : y[i] >= m \/ y[i] < 0
  THEN Raise("ValueError: Invalid data for specified m")
  ELSE IF m = 2 THEN ser(x, y)
  ELSE IF m > MAX_M THEN Raise("ValueError: m > 64 not supported")
  ELSE IF ~CanBroadcast(x, y) THEN Raise("ValueError: operands could not be broadcast")
  ELSE Ok(Rate(SumPopcount(Broadcast(x, y)), Len(x), m))

(* -------------------------------------------------------------- rcosfir *)
(* beta is held in quarters, beta = q / 4, which a float represents        *)
(* exactly, so that 44*beta = 11*q and beta < 0.68 are computed without    *)
(* rounding; span is <<>> for None, else <<n>>.  Sample k, for k in        *)
(* -delay..delay, is at time t = k / sps.  The coefficients are floats;    *)
(* what the model keeps of the returned array is its length and, for each  *)
(* sample, which expression produced it: the analytic limit (limit), the   *)
(* general formula (direct), and the samples where the general formula was *)
(* evaluated on a zero denominator (zerodiv).                              *)
Abs(k) == IF k < 0 THEN -k ELSE k

(* 1 / sqrt(eps) for eps = finfo(float).eps = 2^-52                        *)
InvSqrtEps == 2 ^ 26

(* 33 - int(44*beta) if beta < 0.68 else 4                                 *)
DefaultSpan(q) == IF 100 * q < 68 * 4 THEN 33 - 11 * q ELSE 4

FirDelay(q, sps, span) ==
  ((IF span = <<>> THEN DefaultSpan(q) ELSE span[1]) * sps) \div 2

Filter(len, limit, direct, zerodiv) ==
  [len |-> len, limit |-> limit, direct |-> direct, zerodiv |-> zerodiv]

rcosfir(q, sps, span) ==
  IF q < 0 \/ q > 4 THEN Raise("ValueError: Beta must be between 0 and 1")
  ELSE LET delay == FirDelay(q, sps, span)
           ks == (-delay)..delay
           \* abs(denom) > sqrt(eps), for denom = 1 - (2*beta*t)**2
           \*   = (4*sps^2 - (q*k)^2) / (4*sps^2)
           idx1 == {k \in ks : Abs(4 * sps * sps - q * k * q * k)
                                  > (4 * sps * sps) \div InvSqrtEps}
       IN \* beta*sin(pi/(2*beta))/(2*sps)
          IF 2 * q = 0 THEN Raise("ZeroDivisionError")
          ELSE Ok(Filter(2 * delay + 1, ks \ idx1, idx1, {}))

(* ------------------------------------------------------------- rrcosfir *)
rrcosfir(q, sps, span) ==
  IF q < 0 \/ q > 4 THEN Raise("ValueError: Beta must be between 0 and 1")
  ELSE LET delay == FirDelay(q, sps, span)
           ks == (-delay)..delay
           \* abs(abs(4*beta*t) - 1) < sqrt(eps), for 4*beta*t = q*k / sps
           idx2 == {k \in ks : Abs(Abs(q * k) - sps)
                                  <= (sps - 1) \div InvSqrtEps}
           ind == ks \ (idx2 \cup {0})
       IN \* len(idx2) is 1, so the limit is always evaluated:
          \* sin(pi*(beta+1)/(4*beta))
          IF 4 * q = 0 THEN Raise("ZeroDivisionError")
          ELSE Ok(Filter(2 * delay + 1, idx2 \cup {0}, ind,
                         {k \in ind : q * k = 0 \/ Abs(q * k) = sps}))

(* ================================================================ calls *)
Init ==
  /\ op = "none"
  /\ arg = <<>>
  /\ ret = Ok(<<>>)
  /\ from = NoCall

Fresh(o, a, r) ==
  /\ op' = o
  /\ arg' = a
  /\ ret' = r
  /\ from' = NoCall

Chained(o, a, r) ==
  /\ op' = o
  /\ arg' = a
  /\ ret' = r
  /\ from' = [op |-> op, arg |-> arg]

Idle == op = "none"

Call_gray_code ==
  /\ Idle
  /\ \E mm \in 1..MaxM : Fresh("gray_code", [m |-> mm], Ok(gray_code(mm)))

Call_invert_map ==
  \/ /\ Idle
     /\ \E xs \in SeqsUpTo(-1..2, 3), junk \in 0..1 :
          Fresh("invert_map", [x |-> xs],
                invert_map(xs, [j \in 1..Len(xs) |-> junk]))
  \/ /\ op = "gray_code"
     /\ ret.ok
     /\ \E junk \in 0..1 :
          Chained("invert_map", [x |-> ret.val],
                  invert_map(ret.val, [j \in 1..Len(ret.val) |-> junk]))

Call_bi2sym ==
  /\ Idle
  /\ \E mm \in {1, 2, 3, 4, 8},
        xs \in SeqsUpTo(0..1, MaxBits) \cup {<<2>>, <<0, -1>>} :
       Fresh("bi2sym", [m |-> mm, x |-> xs], bi2sym(xs, mm))

Call_sym2bi ==
  \/ /\ Idle
     /\ \E mm \in {1, 2, 3, 4, 8}, xs \in SeqsUpTo({-1, 0, 1, 3, 7, 8}, 2) :
          Fresh("sym2bi", [m |-> mm, x |-> xs], sym2bi(xs, mm))
  \/ /\ op = "bi2sym"
     /\ ret.ok
     /\ Chained("sym2bi", [m |-> arg.m, x |-> ret.val], sym2bi(ret.val, arg.m))

Call_ook == Idle /\ Fresh("ook", <<>>, ook)

Call_pam ==
  /\ Idle
  /\ \E mm \in 1..MaxPam, gr \in BOOLEAN, ce \in BOOLEAN, junk \in 0..1 :
       Fresh("pam", [m |-> mm, gray |-> gr, centered |-> ce],
             pam(mm, gr, ce, [j \in 1..mm |-> junk]))

Call_psk ==
  /\ Idle
  /\ \E mm \in {1, 2, 3, 4, 6, 8}, p0 \in {<<>>, <<0>>, <<3>>}, gr \in BOOLEAN,
        junk \in 0..1 :
       Fresh("psk", [m |-> mm, gray |-> gr, phase0 |-> p0],
             psk(mm, p0, gr, [j \in 1..mm |-> junk]))

Call_qam ==
  /\ Idle
  /\ \E mm \in {1, 2, 4, 9, 16, 64}, gr \in BOOLEAN, junk \in 0..1 :
       Fresh("qam", [m |-> mm, gray |-> gr],
             qam(mm, gr, [j \in 1..mm |-> junk]))

SymbolsAround(m) == (0..(m - 1)) \cup {-1, -m, -m - 1, m}

(* longest data sequence drawn for a constellation of m points             *)
DataLen(m) == IF m > 16 THEN MaxWideSyms ELSE MaxSyms

Call_modulate ==
  /\ op \in {"ook", "pam", "psk", "qam"}
  /\ ret.ok
  /\ \E d \in SeqsUpTo(SymbolsAround(Len(ret.val.pts)), DataLen(Len(ret.val.pts))) :
       Chained("modulate", [data |-> d, const |-> ret.val], modulate(d, ret.val))

Call_demodulate ==
  /\ op = "modulate"
  /\ ret.ok
  /\ op' = "demodulate"
  /\ arg' = [x |-> ret.val, const |-> arg.const]
  /\ ret' \in demodulate(ret.val, arg.const)
  /\ from' = [op |-> op, arg |-> arg, cons |-> from]

Samples == {<<0, 0>>, <<1, 0>>, <<-1, 0>>, <<0, 1>>, <<0, -1>>, <<2, 0>>, <<1, 1>>}

Call_diff_encode ==
  /\ Idle
  /\ \E xs \in SeqsUpTo(Samples, MaxSig) :
       Fresh("diff_encode", [x |-> xs], diff_encode(xs))

Call_diff_decode ==
  \/ /\ Idle
     /\ \E xs \in SeqsUpTo(Samples, 2) :
          Fresh("diff_decode", [x |-> xs], diff_decode(xs))
  \/ /\ op = "diff_encode"
     /\ ret.ok
     /\ Chained("diff_decode", [x |-> ret.val], diff_decode(ret.val))

Baseband == {<<0, 0>>, <<1, 0>>, <<-1, 0>>, <<1, 1>>}

Call_upconvert ==
  /\ Idle
  /\ \E xs \in SeqsUpTo(Baseband, MaxSig) \ {<<>>}, k \in 1..MaxSps :
       Fresh("upconvert", [x |-> [num |-> xs, rs |-> 0], sps |-> k, fc |-> 0],
             upconvert([num |-> xs, rs |-> 0], k))

Call_downconvert ==
  \/ /\ Idle
     /\ \E xs \in SeqsUpTo(Baseband, 2) \ {<<>>}, k \in 1..MaxSps :
          Fresh("downconvert", [x |-> [num |-> xs, rs |-> 0], sps |-> k, fc |-> 0],
                downconvert([num |-> xs, rs |-> 0], k))
  \/ /\ op = "upconvert"
     /\ ret.ok
     /\ Chained("downconvert", [x |-> ret.val, sps |-> arg.sps, fc |-> 0],
                downconvert(ret.val, arg.sps))

RateValues == {-1, 0, 1, 2, 3, 63}

Call_ser ==
  /\ Idle
  /\ \E xs \in SeqsUpTo(RateValues, MaxRate), ys \in SeqsUpTo(RateValues, MaxRate) :
       Fresh("ser", [x |-> xs, y |-> ys], ser(xs, ys))

Call_ber ==
  /\ Idle
  /\ \E xs \in SeqsUpTo(RateValues, MaxRate), ys \in SeqsUpTo(RateValues, MaxRate),
        mm \in {2, 3, 4, 64, 65} :
       Fresh("ber", [m |-> mm, x |-> xs, y |-> ys], ber(xs, ys, mm))

Spans == {<<>>} \cup {<<n>> : n \in 1..MaxSpan}

Call_rcosfir ==
  /\ Idle
  /\ \E q \in -1..5, k \in 1..(MaxSps + 1), sp \in Spans :
       Fresh("rcosfir", [sps |-> k, span |-> sp, beta |-> <<q, 4>>],
             rcosfir(q, k, sp))

Call_rrcosfir ==
  /\ Idle
  /\ \E q \in -1..5, k \in 1..(MaxSps + 1), sp \in Spans :
       Fresh("rrcosfir", [sps |-> k, span |-> sp, beta |-> <<q, 4>>],
             rrcosfir(q, k, sp))

Next ==
  \/ Call_gray_code
  \/ Call_invert_map
  \/ Call_bi2sym
  \/ Call_sym2bi
  \/ Call_ook
  \/ Call_pam
  \/ Call_psk
  \/ Call_qam
  \/ Call_modulate
  \/ Call_demodulate
  \/ Call_diff_encode
  \/ Call_diff_decode
  \/ Call_upconvert
  \/ Call_downconvert
  \/ Call_ser
  \/ Call_ber
  \/ Call_rcosfir
  \/ Call_rrcosfir

Spec == Init /\ [][Next]_vars

(* =========================================================== properties *)
IsBits(x) == \A i \in 1..Len(x) : x[i] \in 0..1

IsBijectionOnto(x, m) ==
  /\ Len(x) = m
  /\ {x[i] : i \in 1..m} = 0..(m - 1)

GrayValues(x, m) ==
  /\ Len(x) = m
  /\ \A i \in 1..m : x[i] = Xor(i - 1, (i - 1) \div 2)

InvertsGray ==
  /\ ret.ok
  /\ Len(ret.val) = Len(arg.x)
  /\ \A i \in 1..Len(arg.x) : ret.val[arg.x[i] + 1] = i - 1

(* C5 as stated: for every positive m, gray_code(m) is the list of          *)
(* i XOR (i >> 1), it is a bijection of {0..m-1}, and invert_map of it      *)
(* returns without error an inverse with inverse[map[i]] = i.               *)
C5_GrayBijectionEveryM ==
  /\ op = "gray_code" =>
        GrayValues(ret.val, arg.m) /\ IsBijectionOnto(ret.val, arg.m)
  /\ (op = "invert_map" /\ from.op = "gray_code") => InvertsGray

(* C5 amended: for every positive m, gray_code(m) is the list of            *)
(* i XOR (i >> 1); for every m that is a power of two it is a bijection of  *)
(* {0..m-1} and invert_map of it returns an inverse with                    *)
(* inverse[map[i]] = i.                                                     *)
C5_GrayBijectionPow2 ==
  /\ op = "gray_code" => GrayValues(ret.val, arg.m)
  /\ (op = "gray_code" /\ IsPow2(arg.m)) => IsBijectionOnto(ret.val, arg.m)
  /\ (op = "invert_map" /\ from.op = "gray_code" /\ IsPow2(from.arg.m)) =>
        InvertsGray

C5_Witness ==
  /\ op = "invert_map"
  /\ from.op = "gray_code"
  /\ from.arg.m = 8
  /\ ret.ok
  /\ ret.val = <<0, 1, 3, 2, 7, 6, 4, 5>>

(* C2: for every power-of-two m >= 2 and every 0/1 bit sequence whose       *)
(* length is a multiple of log2(m), bi2sym returns len/log2(m) symbols and  *)
(* sym2bi of them, with the same m, is the bit sequence again.              *)
C2_BitSymbolRoundTrip ==
  /\ (/\ op = "bi2sym"
      /\ arg.m >= 2
      /\ IsPow2(arg.m)
      /\ IsBits(arg.x)
      /\ Len(arg.x) % ILog2(arg.m) = 0) =>
        (ret.ok /\ Len(ret.val) * ILog2(arg.m) = Len(arg.x))
  /\ (op = "sym2bi" /\ from.op = "bi2sym") =>
        (ret.ok /\ ret.val = from.arg.x)

C2_Witness ==
  /\ op = "sym2bi"
  /\ from.op = "bi2sym"
  /\ from.arg.m = 4
  /\ from.arg.x = <<0, 1, 1, 0>>
  /\ arg.x = <<1, 2>>
  /\ ret.ok

UnitMagnitude(x) == \A i \in 1..Len(x) : x[i][1] * x[i][1] + x[i][2] * x[i][2] = 1

EncodeShape ==
  op = "diff_encode" =>
    (ret.ok /\ Len(ret.val) = Len(arg.x) + 1 /\ ret.val[1] = COne)

(* C3 as stated: for any complex x of length >= 1, whatever the magnitudes  *)
(* of its elements, diff_encode(x) has length len(x)+1 and first element 1, *)
(* and diff_decode(diff_encode(x)) equals x element for element.            *)
C3_DiffRoundTripAnyMagnitude ==
  /\ EncodeShape
  /\ (op = "diff_decode" /\ from.op = "diff_encode"
        /\ Len(from.arg.x) >= 1) =>
        (ret.ok /\ ret.val = from.arg.x)

(* C3 amended: for any complex x of length >= 1, diff_encode(x) has length  *)
(* len(x)+1 and first element 1; if every element of x has magnitude 1,     *)
(* diff_decode(diff_encode(x)) has length len(x) and equals x.  In general  *)
(* element j comes back multiplied by |x[0] * ... * x[j-1]|^2.              *)
C3_DiffRoundTripUnitMagnitude ==
  /\ EncodeShape
  /\ (op = "diff_decode" /\ from.op = "diff_encode") =>
        /\ ret.ok
        /\ Len(ret.val) = Len(from.arg.x)
        /\ \A j \in 1..Len(ret.val) :
             LET p == arg.x[j]
             IN ret.val[j] = CScale(p[1] * p[1] + p[2] * p[2], from.arg.x[j])
        /\ (Len(from.arg.x) >= 1 /\ UnitMagnitude(from.arg.x)) =>
             ret.val = from.arg.x

C3_Witness ==
  /\ op = "diff_decode"
  /\ from.op = "diff_encode"
  /\ from.arg.x = <<<<0, 1>>, <<-1, 0>>, <<0, 1>>>>
  /\ arg.x = <<<<1, 0>>, <<0, 1>>, <<0, -1>>, <<1, 0>>>>
  /\ ret.val = from.arg.x

(* Sample k (from 0) of a sequence, zero outside it.                        *)
At(x, k) == IF k >= 0 /\ k < Len(x) THEN x[k + 1] ELSE CZero

(* out[i + d] = c * bb[i] for every index i of bb, for one complex c.       *)
DelayedScaledCopy(out, bb, d) ==
  /\ Len(out) >= Len(bb) + d
  /\ \A i \in 0..(Len(bb) - 1) : At(bb, i) = CZero => At(out, i + d) = CZero
  /\ \A i, k \in 0..(Len(bb) - 1) :
       CMul(At(out, i + d), At(bb, k)) = CMul(At(out, k + d), At(bb, i))

RoundTripCase == op = "downconvert" /\ from.op = "upconvert"

(* C4 as stated: with fc = 0 and the default rectangular pulse, for every   *)
(* sps >= 1 and every bb there are one delay d and one scale c with         *)
(* downconvert(upconvert(bb))[i + d] = c * bb[i] for every index i of bb.   *)
C4_RoundTripDelayedCopy ==
  RoundTripCase =>
    /\ ret.ok
    /\ \E d \in 0..Len(ret.val.num) :
         DelayedScaledCopy(ret.val.num, from.arg.x.num, d)

(* C4 amended: with fc = 0 and the default rectangular pulse, for sps = 1   *)
(* the round trip returns bb itself (d = 0, c = 1); for sps >= 2 it returns *)
(* len(bb)+1 samples and sample i is (bb[i] + (sps-1)*bb[i-1]) / sps, with  *)
(* bb[-1] = bb[len(bb)] = 0, so a recovered sample mixes two adjacent input *)
(* symbols.                                                                 *)
C4_RoundTripTwoSymbolMix ==
  RoundTripCase =>
    LET bb == from.arg.x.num
        sps == arg.sps
        out == ret.val.num
    IN /\ ret.ok
       /\ ret.val.rs = 2
       /\ Len(out) = Len(bb) + (IF sps = 1 THEN 0 ELSE 1)
       /\ \A i \in 0..(Len(out) - 1) :
            At(out, i) = CAdd(At(bb, i), CScale(sps - 1, At(bb, i - 1)))
       /\ sps = 1 => out = bb

C4_Witness ==
  /\ RoundTripCase
  /\ arg.sps = 2
  /\ from.arg.x.num = <<<<1, 0>>, <<-1, 0>>, <<1, 1>>>>
  /\ ret.val.num = <<<<1, 0>>, <<0, 0>>, <<0, 1>>, <<1, 1>>>>

InAlphabet(d, m) == \A i \in 1..Len(d) : d[i] >= 0 /\ d[i] < m

(* ook(), pam(), psk() and qam(16), as constructed by default               *)
NamedConstellation(c) ==
  \/ c.op = "ook"
  \/ c.op = "pam" /\ c.arg = [m |-> 2, gray |-> TRUE, centered |-> TRUE]
  \/ c.op = "psk" /\ c.arg = [m |-> 2, gray |-> TRUE, phase0 |-> <<>>]
  \/ c.op = "qam" /\ c.arg = [m |-> 16, gray |-> TRUE]

(* C1: for ook(), pam(), psk() and qam(16) and every sequence of symbols in *)
(* [0, len(C)), modulate returns one sample per symbol and demodulate of    *)
(* that signal, with the default metric and arg-min decision, returns the   *)
(* symbols again.                                                           *)
C1_NoiselessRoundTrip ==
  /\ (/\ op = "modulate"
      /\ NamedConstellation(from)
      /\ InAlphabet(arg.data, Len(arg.const.pts))) =>
        (ret.ok /\ Len(ret.val) = Len(arg.data))
  /\ (/\ op = "demodulate"
      /\ NamedConstellation(from.cons)
      /\ InAlphabet(from.arg.data, Len(arg.const.pts))) =>
        (ret.ok /\ ret.val = from.arg.data)

C1_Witness ==
  /\ op = "demodulate"
  /\ from.cons.op = "qam"
  /\ from.cons.arg = [m |-> 16, gray |-> TRUE]
  /\ from.arg.data = <<5, 10>>
  /\ arg.x = <<<<-1, -1>>, <<3, 3>>>>
  /\ ret.val = <<5, 10>>

(* C9: for every constellation of m points, modulate raises an error        *)
(* whenever some symbol index is outside [0, m), negative or >= m.          *)
C9_OutOfRangeSymbolRaises ==
  (op = "modulate" /\ ~InAlphabet(arg.data, Len(arg.const.pts))) => ~ret.ok

(* The mean of |point|^2 over the points of c is 1: exactly where the code  *)
(* divides by the root mean square, and to the 8 decimals the code rounds   *)
(* to where the points are rounded (div = 1e8).                             *)
RECURSIVE WSumSq(_)
WSumSq(pts) ==
  IF pts = <<>> THEN <<0, 0>>
  ELSE WAdd(WAdd(WSq(Head(pts)[1]), WSq(Head(pts)[2])), WSumSq(Tail(pts)))

UnitMeanSquare(c) ==
  LET n == Len(c.pts)
  IN /\ ~IsNaN(c)
     /\ IF c.div = 10 ^ 8
        THEN /\ ~WLess(WSumSq(c.pts), <<n * (10 ^ 8 - 1), 0>>)
             /\ ~WLess(<<n * (10 ^ 8 + 1), 0>>, WSumSq(c.pts))
        ELSE SumSq(c.pts) * c.d2d = n * c.div * c.div * c.d2n

ConstellationCase == op \in {"ook", "pam", "psk", "qam"} /\ ret.ok

(* C7: every constellation that ook, pam, psk or qam returns, for every     *)
(* alphabet size m >= 1 the function accepts, has exactly m points whose    *)
(* mean squared magnitude is 1; the normalizing divisor is never zero.      *)
C7_UnitAverageEnergy ==
  ConstellationCase =>
    /\ Len(ret.val.pts) = (IF op = "ook" THEN 2 ELSE arg.m)
    /\ UnitMeanSquare(ret.val)

(* The same for the alphabet sizes m >= 2 (a lemma: it shows that the       *)
(* only constellations without unit energy are the one-point ones).         *)
UnitAverageEnergyFromTwo ==
  (ConstellationCase /\ Len(ret.val.pts) >= 2) =>
    /\ Len(ret.val.pts) = (IF op = "ook" THEN 2 ELSE arg.m)
    /\ UnitMeanSquare(ret.val)

(* Bit b of symbol v, and the bit positions where x[i] and y[i] differ      *)
Bit(v, b) == (v \div (2 ^ b)) % 2

BitErrors(x, y) ==
  {<<i, b>> \in (1..Len(x)) \X (0..5) : Bit(x[i], b) # Bit(y[i], b)}

InUnitInterval(r) ==
  /\ r.den > 0
  /\ r.base > 1
  /\ r.num >= 0
  /\ 2 ^ r.num <= r.base ^ r.den

(* ber on valid arguments; an empty sequence divides by zero (an error for *)
(* m = 2, NaN otherwise), and the statement is about sequences that have a *)
(* position.                                                               *)
BerCase ==
  /\ op = "ber"
  /\ arg.m >= 2
  /\ arg.m <= 64
  /\ Len(arg.x) = Len(arg.y)
  /\ Len(arg.x) >= 1
  /\ InAlphabet(arg.x, arg.m)
  /\ InAlphabet(arg.y, arg.m)

BerIsBitErrorRate ==
  /\ ret.ok
  /\ ret.val = Rate(Cardinality(BitErrors(arg.x, arg.y)), Len(arg.x), arg.m)
  /\ \A i \in 1..Len(arg.x) :
       2 ^ Cardinality(BitErrors(<<arg.x[i]>>, <<arg.y[i]>>)) <= arg.m
  /\ InUnitInterval(ret.val)
  /\ arg.m = 2 =>
       /\ ret = ser(arg.x, arg.y)
       /\ ret.val.num = Cardinality({i \in 1..Len(arg.x) : arg.x[i] # arg.y[i]})

(* C6 as stated: for every m in 2..64 and equal-length x, y over [0, m),    *)
(* ber is the number of differing bits over len(x)*log2(m), a position      *)
(* contributes at most log2(m) of them, the result is in [0, 1], and for    *)
(* m = 2 it is ser(x, y).                                                   *)
C6_BerEveryM == BerCase => BerIsBitErrorRate

(* C6 amended: the same for every m in 2..64 that is a power of two.        *)
C6_BerPow2 == (BerCase /\ IsPow2(arg.m)) => BerIsBitErrorRate

C6_Witness ==
  /\ op = "ber"
  /\ arg = [m |-> 4, x |-> <<1, 3>>, y |-> <<2, 3>>]
  /\ ret.val = Rate(2, 2, 4)

(* C10: ser and ber raise an error whenever the lengths of x and y differ,  *)
(* also when one of them is 1; when they return, the lengths were equal     *)
(* and the rate is in [0, 1].  (Stated for non-empty x and y.)              *)
C10_LengthMismatchRaises ==
  (op \in {"ser", "ber"} /\ Len(arg.x) >= 1 /\ Len(arg.y) >= 1) =>
    /\ Len(arg.x) # Len(arg.y) => ~ret.ok
    /\ ret.ok => (Len(arg.x) = Len(arg.y) /\ InUnitInterval(ret.val))

FilterCase == op \in {"rcosfir", "rrcosfir"}

(* The sample offsets k (t = k / sps) where a denominator of the            *)
(* coefficient formula is zero.                                             *)
SingularSamples ==
  LET bn == arg.beta[1]
      bd == arg.beta[2]
      delay == FirDelay(bn, arg.sps, arg.span)
  IN {k \in (-delay)..delay :
        IF op = "rcosfir" THEN 2 * bn * Abs(k) = bd * arg.sps
        ELSE k = 0 \/ bn = 0 \/ 4 * bn * Abs(k) = bd * arg.sps}

(* C8: rcosfir and rrcosfir raise an error exactly when beta is outside     *)
(* [0, 1]; for beta in [0, 1], ends included, they return                   *)
(* 2*floor(span*sps/2)+1 coefficients, with the analytic limit at every     *)
(* sample where a denominator vanishes and no division by zero.             *)
C8_FilterTotalOnClosedInterval ==
  FilterCase =>
    /\ ret.ok <=> (arg.beta[1] >= 0 /\ arg.beta[1] <= arg.beta[2])
    /\ ret.ok =>
         /\ ret.val.len =
              2 * (((IF arg.span = <<>>
                     THEN DefaultSpan(arg.beta[1])
                     ELSE arg.span[1]) * arg.sps) \div 2) + 1
         /\ ret.val.zerodiv = {}
         /\ ret.val.limit = SingularSamples

(* The same for 0 < beta <= 1 (a lemma: it shows that beta = 0 is the       *)
(* only value of [0, 1] the filters fail on).                               *)
FilterTotalOnHalfOpenInterval ==
  (FilterCase /\ arg.beta[1] # 0) => C8_FilterTotalOnClosedInterval

(* C11: for every power-of-two m >= 2 and every 0/1 bit sequence whose      *)
(* length is not a multiple of log2(m), bi2sym raises an error and returns  *)
(* no symbols; it does not drop the trailing bits and return the symbols    *)
(* of the prefix.                                                           *)
C11_RaggedBitsRaise ==
  (/\ op = "bi2sym"
   /\ arg.m >= 2
   /\ IsPow2(arg.m)
   /\ IsBits(arg.x)
   /\ Len(arg.x) % ILog2(arg.m) # 0) =>
     (~ret.ok /\ ret.err = "ValueError: reshape" /\ ret.val = <<>>)

C11_Witness ==
  /\ op = "bi2sym"
  /\ arg = [m |-> 8, x |-> <<0, 0, 1, 0, 1>>]
  /\ ~ret.ok
  /\ ret.err = "ValueError: reshape"

(* C12: for qam(m, gray=True) with m in {4, 16, 64} and n = sqrt(m), the    *)
(* symbols 0..m-1 are assigned one-to-one to the points of the n-by-n grid, *)
(* and any two symbols whose points are adjacent in the same row or in the  *)
(* same column have indices that differ in exactly one bit.                 *)
GridPoints(n) ==
  {<<2 * r - (n - 1), 2 * i - (n - 1)>> : r \in 0..(n - 1), i \in 0..(n - 1)}

GridNeighbours(p, q) ==
  \/ p[1] = q[1] /\ Abs(p[2] - q[2]) = 2
  \/ p[2] = q[2] /\ Abs(p[1] - q[1]) = 2

QamGrayCase ==
  /\ op = "qam"
  /\ arg.gray
  /\ arg.m \in {4, 16, 64}

C12_QamGrayNeighboursOneBit ==
  QamGrayCase =>
    /\ ret.ok
    /\ Len(ret.val.pts) = arg.m
    /\ {ret.val.pts[s] : s \in 1..arg.m} = GridPoints(ISqrt(arg.m))
    /\ Cardinality(GridPoints(ISqrt(arg.m))) = arg.m
    /\ \A s, t \in 1..arg.m :
         GridNeighbours(ret.val.pts[s], ret.val.pts[t]) =>
           Cardinality(BitErrors(<<s - 1>>, <<t - 1>>)) = 1

C12_Witness ==
  /\ QamGrayCase
  /\ arg.m = 64
  /\ ret.ok
  /\ ret.val.pts[1] = <<-7, -7>>
  /\ ret.val.pts[9] = <<-5, -7>>
  /\ ret.val.pts[5] = <<-7, 7>>
  /\ GridNeighbours(ret.val.pts[1], ret.val.pts[9])

====
